---- MODULE Spec2Model ----
(***************************************************************************)
(* Zynq UltraScale+ R5 remote processor driver                             *)
(* (drivers/remoteproc/zynqmp_r5_remoteproc.c) as a state machine.         *)
(*                                                                         *)
(* State: the memory mapped registers of the three windows the driver      *)
(* touches (a plain backing store: a register holds the last value         *)
(* written), the per-device driver data (struct zynqmp_r5_rproc_pdata),    *)
(* the remoteprocdev[] registry, the work items queued on the system       *)
(* workqueue and the record of the handler that ran last.                  *)
(*                                                                         *)
(* One action per entry point of the driver: probe, start, stop, kick,     *)
(* the interrupt handler, the deferred work body and remove.  Each action  *)
(* is the whole handler.                                                   *)
(***************************************************************************)
EXTENDS Integers, Sequences, FiniteSets, TLC

(***************************************************************************)
(* Bounds of the model.                                                    *)
(***************************************************************************)
\* entries of one work item that may sit on the worklist before interrupts
\* are no longer explored
MaxQueued == 2

(***************************************************************************)
(* 32-bit register arithmetic.                                             *)
(***************************************************************************)
BIT(n) == 2 ^ n

RECURSIVE BitOr(_, _)
BitOr(a, b) ==
    IF a = 0 THEN b
    ELSE IF b = 0 THEN a
    ELSE (IF a % 2 = 1 \/ b % 2 = 1 THEN 1 ELSE 0) + 2 * BitOr(a \div 2, b \div 2)

RECURSIVE BitAnd(_, _)
BitAnd(a, b) ==
    IF a = 0 \/ b = 0 THEN 0
    ELSE (IF a % 2 = 1 /\ b % 2 = 1 THEN 1 ELSE 0) + 2 * BitAnd(a \div 2, b \div 2)

\* a & ~b on u32
BitAndNot(a, b) == a - BitAnd(a, b)

\* a << n; the only shift of the driver is RPU0_RESET_BIT << rpu_id with
\* rpu_id 0 or 1, far from the width of a u32
Shl(a, n) == a * (2 ^ n)

(***************************************************************************)
(* Register offsets and bits.                                              *)
(***************************************************************************)
RPU_GLBL_CNTL_OFFSET == 0
RPU_0_CFG_OFFSET == 256
RPU_1_CFG_OFFSET == 512
VINITHI_BIT == BIT(2)
nCPUHALT_BIT == BIT(0)
SLSPLIT_BIT == BIT(3)
SLCLAMP_BIT == BIT(4)
TCM_COMB_BIT == BIT(6)

RST_LPD_TOP_OFFSET == 572
RPU0_RESET_BIT == BIT(0)

TRIG_OFFSET == 0
ISR_OFFSET == 16
IER_OFFSET == 24
IDR_OFFSET == 28
IPI_ALL_MASK == 252642049

MAX_INSTANCES == 2

\* enum control_method
SMC == 0
HVC == 1
HW == 2
\* enum rpu_bootmem
TCM == 0
OCM == 1
\* enum rpu_core_conf
LOCK_STEP == 0
SPLIT == 1

\* irqreturn_t
IRQ_NONE == 0
IRQ_HANDLED == 1

\* errno
ENXIO == 6

DEFAULT_IPI_DEST_MASK == 256

(***************************************************************************)
(* The three register windows.  A window is named by the resource the      *)
(* probe maps it from; "NULL" is the unmapped pointer of a pdata that was  *)
(* only zero-allocated.                                                    *)
(***************************************************************************)
RpuWindow == {RPU_GLBL_CNTL_OFFSET, RPU_0_CFG_OFFSET, RPU_1_CFG_OFFSET}
CrlApbWindow == {RST_LPD_TOP_OFFSET}
IpiWindow == {TRIG_OFFSET, ISR_OFFSET, IER_OFFSET, IDR_OFFSET}

Windows == {"rpu_base", "apb_base", "ipi"}

WindowRegs(w) ==
    CASE w = "rpu_base" -> RpuWindow
      [] w = "apb_base" -> CrlApbWindow
      [] w = "ipi" -> IpiWindow

(***************************************************************************)
(* Events a handler leaves in its trace.  lvl 0: issued by the handler     *)
(* itself (the call of a backend operation, a delay, a registry store);    *)
(* lvl 1: issued inside a backend operation (register writes, the settle   *)
(* delay of the IPI reset, the diagnostic of a stub).                      *)
(***************************************************************************)
Ev(name, lvl, win, off, val) ==
    [ev |-> name, lvl |-> lvl, win |-> win, off |-> off, val |-> val]

Emit(s, e) == [s EXCEPT !.trace = Append(@, e)]

reg_read(s, base, reg) == s.regs[base][reg]

reg_write(s, base, reg, val) ==
    [regs |-> [s.regs EXCEPT ![base][reg] = val],
     trace |-> Append(s.trace, Ev("reg_write", 1, base, reg, val))]

udelay(s, lvl, n) == Emit(s, Ev("udelay", lvl, "", 0, n))

pr_err(s, fn) == Emit(s, Ev(fn, 1, "pr_err", 0, 0))

(***************************************************************************)
(* RPU operations, direct hardware access.                                 *)
(***************************************************************************)
\* hw_r5_boot_dev with a fault: the register of core 0 is used for both cores
boot_dev_core0_register(s, pdata) ==
    LET offset == RPU_0_CFG_OFFSET
        tmp == reg_read(s, pdata.rpu_base, offset)
    IN  IF pdata.bootmem = OCM
        THEN reg_write(s, pdata.rpu_base, offset, BitOr(tmp, VINITHI_BIT))
        ELSE reg_write(s, pdata.rpu_base, offset, BitAndNot(tmp, VINITHI_BIT))

hw_r5_boot_dev(s, pdata) ==
    LET offset == IF pdata.rpu_id = 0 THEN RPU_0_CFG_OFFSET ELSE RPU_1_CFG_OFFSET
        tmp == reg_read(s, pdata.rpu_base, offset)
    IN  IF pdata.bootmem = OCM
        THEN reg_write(s, pdata.rpu_base, offset, BitOr(tmp, VINITHI_BIT))
        ELSE reg_write(s, pdata.rpu_base, offset, BitAndNot(tmp, VINITHI_BIT))

hw_r5_reset(s, pdata, do_reset) ==
    LET tmp == reg_read(s, pdata.crl_apb_base, RST_LPD_TOP_OFFSET)
    IN  IF do_reset
        THEN reg_write(s, pdata.crl_apb_base, RST_LPD_TOP_OFFSET,
                       BitOr(tmp, Shl(RPU0_RESET_BIT, pdata.rpu_id)))
        ELSE reg_write(s, pdata.crl_apb_base, RST_LPD_TOP_OFFSET,
                       BitAndNot(tmp, Shl(RPU0_RESET_BIT, pdata.rpu_id)))

hw_r5_halt(s, pdata, do_halt) ==
    LET offset == IF pdata.rpu_id = 0 THEN RPU_0_CFG_OFFSET ELSE RPU_1_CFG_OFFSET
        tmp == reg_read(s, pdata.rpu_base, offset)
    IN  IF do_halt
        THEN reg_write(s, pdata.rpu_base, offset, BitAndNot(tmp, nCPUHALT_BIT))
        ELSE reg_write(s, pdata.rpu_base, offset, BitOr(tmp, nCPUHALT_BIT))

\* hw_r5_core_config with a fault: split mode leaves the clamp bit alone
core_config_keeps_clamp(s, pdata) ==
    LET tmp == reg_read(s, pdata.rpu_base, 0)
    IN  IF pdata.rpu_mode = SPLIT
        THEN reg_write(s, pdata.rpu_base, 0,
                 BitAndNot(BitOr(tmp, SLSPLIT_BIT), TCM_COMB_BIT))
        ELSE reg_write(s, pdata.rpu_base, 0,
                 BitOr(BitOr(BitAndNot(tmp, SLSPLIT_BIT), TCM_COMB_BIT), SLCLAMP_BIT))

hw_r5_core_config(s, pdata) ==
    LET tmp == reg_read(s, pdata.rpu_base, 0)
    IN  IF pdata.rpu_mode = SPLIT
        THEN reg_write(s, pdata.rpu_base, 0,
                 BitAndNot(BitAndNot(BitOr(tmp, SLSPLIT_BIT), TCM_COMB_BIT), SLCLAMP_BIT))
        ELSE reg_write(s, pdata.rpu_base, 0,
                 BitOr(BitOr(BitAndNot(tmp, SLSPLIT_BIT), TCM_COMB_BIT), SLCLAMP_BIT))

(***************************************************************************)
(* RPU operations, secure monitor call and hypervisor call: a diagnostic   *)
(* and nothing else.                                                       *)
(***************************************************************************)
smc_r5_boot_dev(s, pdata) == pr_err(s, "smc_r5_boot_dev")
\* smc_r5_reset with a fault: the stub sets a bit of the reset register
\* besides its diagnostic
smc_reset_touches_register(s, pdata, do_reset) ==
    reg_write(pr_err(s, "smc_r5_reset"), "apb_base", RST_LPD_TOP_OFFSET,
              BitOr(reg_read(s, "apb_base", RST_LPD_TOP_OFFSET), 4 * RPU0_RESET_BIT))

smc_r5_reset(s, pdata, do_reset) == pr_err(s, "smc_r5_reset")
smc_r5_halt(s, pdata, do_halt) == pr_err(s, "smc_r5_halt")
smc_r5_core_config(s, pdata) == pr_err(s, "smc_r5_core_config")

hvc_r5_boot_dev(s, pdata) == pr_err(s, "hvc_r5_boot_dev")
hvc_r5_reset(s, pdata, do_reset) == pr_err(s, "hvc_r5_reset")
hvc_r5_halt(s, pdata, do_halt) == pr_err(s, "hvc_r5_halt")
hvc_r5_core_config(s, pdata) == pr_err(s, "hvc_r5_core_config")

(***************************************************************************)
(* IPI operations, direct hardware access.                                 *)
(***************************************************************************)
hw_clear_ipi(s, pdata) == reg_write(s, pdata.ipi_base, ISR_OFFSET, pdata.ipi_dest_mask)

\* hw_ipi_reset with a fault: only the destination mask is disabled and cleared
ipi_reset_with_dest_mask(s, pdata) ==
    LET s1 == reg_write(s, pdata.ipi_base, IDR_OFFSET, pdata.ipi_dest_mask)
        s2 == reg_write(s1, pdata.ipi_base, ISR_OFFSET, pdata.ipi_dest_mask)
    IN  udelay(s2, 1, 10)

\* hw_ipi_reset with a fault: the status is cleared while the sources are
\* still enabled
ipi_reset_status_first(s, pdata) ==
    LET s1 == reg_write(s, pdata.ipi_base, ISR_OFFSET, IPI_ALL_MASK)
        s2 == reg_write(s1, pdata.ipi_base, IDR_OFFSET, IPI_ALL_MASK)
    IN  udelay(s2, 1, 10)

hw_ipi_reset(s, pdata) ==
    LET s1 == reg_write(s, pdata.ipi_base, IDR_OFFSET, IPI_ALL_MASK)
        s2 == reg_write(s1, pdata.ipi_base, ISR_OFFSET, IPI_ALL_MASK)
    IN  udelay(s2, 1, 10)

hw_set_ipi_mask(s, pdata) == reg_write(s, pdata.ipi_base, IER_OFFSET, pdata.ipi_dest_mask)

hw_trigger_ipi(s, pdata) == reg_write(s, pdata.ipi_base, TRIG_OFFSET, pdata.ipi_dest_mask)

(***************************************************************************)
(* IPI operations, secure monitor call and hypervisor call.                *)
(***************************************************************************)
smc_clear_ipi(s, pdata) == pr_err(s, "smc_clear_ipi")
smc_ipi_reset(s, pdata) == pr_err(s, "smc_ipi_reset")
smc_set_ipi_mask(s, pdata) == pr_err(s, "smc_set_ipi_mask")
smc_trigger_ipi(s, pdata) == pr_err(s, "smc_trigger_ipi")

hvc_clear_ipi(s, pdata) == pr_err(s, "hvc_clear_ipi")
hvc_ipi_reset(s, pdata) == pr_err(s, "hvc_ipi_reset")
hvc_set_ipi_mask(s, pdata) == pr_err(s, "hvc_set_ipi_mask")
hvc_trigger_ipi(s, pdata) == pr_err(s, "hvc_trigger_ipi")

(***************************************************************************)
(* Calls through the operation tables: pdata->rpu_ops->op(pdata, ...) and  *)
(* pdata->ipi_ops->op(pdata).  The call itself is a lvl 0 event.           *)
(***************************************************************************)
rpu_bootdev(s, pdata) ==
    LET c == Emit(s, Ev("bootdev", 0, "", 0, 0))
    IN  CASE pdata.rpu_ops = "rpu_hw_ops" -> hw_r5_boot_dev(c, pdata)
          [] pdata.rpu_ops = "rpu_smc_ops" -> smc_r5_boot_dev(c, pdata)
          [] pdata.rpu_ops = "rpu_hvc_ops" -> hvc_r5_boot_dev(c, pdata)

rpu_core_conf(s, pdata) ==
    LET c == Emit(s, Ev("core_conf", 0, "", 0, 0))
    IN  CASE pdata.rpu_ops = "rpu_hw_ops" -> hw_r5_core_config(c, pdata)
          [] pdata.rpu_ops = "rpu_smc_ops" -> smc_r5_core_config(c, pdata)
          [] pdata.rpu_ops = "rpu_hvc_ops" -> hvc_r5_core_config(c, pdata)

rpu_halt(s, pdata, do_halt) ==
    LET c == Emit(s, Ev("halt", 0, "", 0, IF do_halt THEN 1 ELSE 0))
    IN  CASE pdata.rpu_ops = "rpu_hw_ops" -> hw_r5_halt(c, pdata, do_halt)
          [] pdata.rpu_ops = "rpu_smc_ops" -> smc_r5_halt(c, pdata, do_halt)
          [] pdata.rpu_ops = "rpu_hvc_ops" -> hvc_r5_halt(c, pdata, do_halt)

rpu_en_reset(s, pdata, do_reset) ==
    LET c == Emit(s, Ev("en_reset", 0, "", 0, IF do_reset THEN 1 ELSE 0))
    IN  CASE pdata.rpu_ops = "rpu_hw_ops" -> hw_r5_reset(c, pdata, do_reset)
          [] pdata.rpu_ops = "rpu_smc_ops" -> smc_r5_reset(c, pdata, do_reset)
          [] pdata.rpu_ops = "rpu_hvc_ops" -> hvc_r5_reset(c, pdata, do_reset)

ipi_clear(s, pdata) ==
    LET c == Emit(s, Ev("clear", 0, "", 0, 0))
    IN  CASE pdata.ipi_ops = "ipi_hw_ops" -> hw_clear_ipi(c, pdata)
          [] pdata.ipi_ops = "ipi_smc_ops" -> smc_clear_ipi(c, pdata)
          [] pdata.ipi_ops = "ipi_hvc_ops" -> hvc_clear_ipi(c, pdata)

ipi_reset(s, pdata) ==
    LET c == Emit(s, Ev("reset", 0, "", 0, 0))
    IN  CASE pdata.ipi_ops = "ipi_hw_ops" -> hw_ipi_reset(c, pdata)
          [] pdata.ipi_ops = "ipi_smc_ops" -> smc_ipi_reset(c, pdata)
          [] pdata.ipi_ops = "ipi_hvc_ops" -> hvc_ipi_reset(c, pdata)

ipi_set_mask(s, pdata) ==
    LET c == Emit(s, Ev("set_mask", 0, "", 0, 0))
    IN  CASE pdata.ipi_ops = "ipi_hw_ops" -> hw_set_ipi_mask(c, pdata)
          [] pdata.ipi_ops = "ipi_smc_ops" -> smc_set_ipi_mask(c, pdata)
          [] pdata.ipi_ops = "ipi_hvc_ops" -> hvc_set_ipi_mask(c, pdata)

ipi_trigger(s, pdata) ==
    LET c == Emit(s, Ev("trigger", 0, "", 0, 0))
    IN  CASE pdata.ipi_ops = "ipi_hw_ops" -> hw_trigger_ipi(c, pdata)
          [] pdata.ipi_ops = "ipi_smc_ops" -> smc_trigger_ipi(c, pdata)
          [] pdata.ipi_ops = "ipi_hvc_ops" -> hvc_trigger_ipi(c, pdata)

ipi_init(s, pdata) == ipi_set_mask(ipi_reset(s, pdata), pdata)

(***************************************************************************)
(* Platform devices and their device tree nodes.                           *)
(***************************************************************************)
Devs == {"rpu_a", "rpu_b"}

\* a property that is not in the node
ABSENT == -1

Node(core_conf, method, bootmem, mask, vring0) ==
    [core_conf |-> core_conf, method |-> method, bootmem |-> bootmem,
     ipi_dest_mask |-> mask, vring0 |-> vring0]

\* The device trees explored: every core_conf, method and bootmem string the
\* probe recognizes, the defaults of absent properties, one unrecognized
\* string per property, a node without its vring0 memory resource, and a
\* pair of nodes that resolve to the same rpu_id.
DeviceTrees ==
    { [rpu_a |-> Node("lock-step", "direct", "tcm", ABSENT, TRUE),
       rpu_b |-> Node("split0", "direct", "ocm", 512, TRUE)],
      [rpu_a |-> Node("split0", "direct", "tcm", 256, TRUE),
       rpu_b |-> Node("split1", "direct", "ocm", 512, TRUE)],
      [rpu_a |-> Node("absent", "absent", "absent", ABSENT, TRUE),
       rpu_b |-> Node("split1", "hvc", "ocm", 512, TRUE)],
      [rpu_a |-> Node("bogus", "direct", "tcm", ABSENT, TRUE),
       rpu_b |-> Node("split1", "direct", "bogus", 512, TRUE)],
      [rpu_a |-> Node("split0", "bogus", "tcm", ABSENT, TRUE),
       rpu_b |-> Node("lock-step", "direct", "ocm", ABSENT, TRUE)],
      [rpu_a |-> Node("split1", "smc", "ocm", 512, TRUE),
       rpu_b |-> Node("split0", "direct", "tcm", ABSENT, TRUE)],
      [rpu_a |-> Node("lock-step", "direct", "tcm", 256, FALSE),
       rpu_b |-> Node("split1", "direct", "tcm", ABSENT, TRUE)] }

(***************************************************************************)
(* Register contents before the driver has touched anything: both cores in *)
(* reset and halted, the IPI block untouched.  The other bits vary.        *)
(***************************************************************************)
Regs(glbl, cfg0, cfg1, rst) ==
    [rpu_base |-> [o \in RpuWindow |->
                     CASE o = RPU_GLBL_CNTL_OFFSET -> glbl
                       [] o = RPU_0_CFG_OFFSET -> cfg0
                       [] o = RPU_1_CFG_OFFSET -> cfg1],
     apb_base |-> [o \in CrlApbWindow |-> rst],
     ipi |-> [o \in IpiWindow |-> 0]]

PowerOnRegs ==
    { Regs(80, 0, 0, 1609695),
      Regs(10, 36, 32, 3),
      Regs(72, 4, 4, 19) }

(***************************************************************************)
(* State.                                                                  *)
(***************************************************************************)
VARIABLES
    of_node,        \* the device tree: Devs -> node, fixed
    boot_regs,      \* the register contents at power on, fixed
    regs,           \* window -> offset -> value
    dev,            \* Devs -> driver core view of the platform device
    local,          \* Devs -> struct zynqmp_r5_rproc_pdata (platform drvdata)
    rproc_state,    \* Devs -> state of the struct rproc behind local->rproc
    remoteprocdev,  \* rpu_id -> platform device or "NULL"
    worklist,       \* Devs -> entries of local->workqueue on the system workqueue
    hist,           \* what has run on the hardware since power on
    call,           \* the handler that returned last
    fn,             \* the last application of one function to a chosen input
    step            \* Devs -> position of a start or stop run one register access at a time

vars == <<of_node, boot_regs, regs, dev, local, rproc_state, remoteprocdev,
          worklist, hist, call, fn, step>>

\* devm_kzalloc: every field zero
ZeroPdata ==
    [rproc |-> "NULL", ipi_ops |-> "NULL", rpu_ops |-> "NULL",
     workqueue |-> [pending |-> FALSE, func |-> "NULL"],
     rpu_base |-> "NULL", crl_apb_base |-> "NULL", ipi_base |-> "NULL",
     rpu_mode |-> 0, bootmem |-> 0, ipi_dest_mask |-> 0, rpu_id |-> 0,
     vring0 |-> 0]

NoFn == [name |-> "none", dev |-> "NULL", arg |-> <<>>, ret |-> 0,
         pre |-> <<>>, post |-> <<>>]

Idle == [op |-> "idle", at |-> 0, phase |-> "read", tmp |-> 0, last_reset |-> ABSENT,
         last_conf |-> ABSENT]

NoCall == [op |-> "none", dev |-> "NULL", ret |-> 0, oops |-> FALSE,
           trace |-> <<>>, vq |-> "NULL"]

Returned(op, d, ret, trace) ==
    [op |-> op, dev |-> d, ret |-> ret, oops |-> FALSE, trace |-> trace, vq |-> "NULL"]

Init ==
    /\ of_node \in DeviceTrees
    /\ boot_regs \in PowerOnRegs
    /\ regs = boot_regs
    /\ dev = [d \in Devs |-> [state |-> "unprobed", irq |-> FALSE]]
    /\ local = [d \in Devs |-> ZeroPdata]
    /\ rproc_state = [d \in Devs |-> "none"]
    /\ remoteprocdev = [i \in 0 .. (MAX_INSTANCES - 1) |-> "NULL"]
    /\ worklist = [d \in Devs |-> 0]
    /\ hist = [phase |-> "fresh", dev |-> "NULL"]
    /\ call = NoCall
    /\ fn = NoFn
    /\ step = [d \in Devs |-> Idle]

(***************************************************************************)
(* zynqmp_r5_remoteproc_probe.  The result is the return value, the pdata  *)
(* as the probe left it, whether the interrupt line was requested and      *)
(* whether rproc_add registered the rproc.                                 *)
(***************************************************************************)
ProbeOut(ret, pdata, irq, added) ==
    [ret |-> ret, local |-> pdata, irq |-> irq, added |-> added]

\* the labels rproc_fault / dma_mask_fault / err_exit all end in "return 0"
dma_mask_fault(pdata) == ProbeOut(0, pdata, FALSE, FALSE)

probe_core_conf(node, l0) ==
    LET prop == IF node.core_conf = "absent" THEN "lock-step" ELSE node.core_conf
    IN  CASE prop = "split0" -> [ok |-> TRUE, local |-> [l0 EXCEPT !.rpu_mode = SPLIT, !.rpu_id = 0]]
          [] prop = "split1" -> [ok |-> TRUE, local |-> [l0 EXCEPT !.rpu_mode = SPLIT, !.rpu_id = 1]]
          [] prop = "lock-step" -> [ok |-> TRUE, local |-> [l0 EXCEPT !.rpu_mode = LOCK_STEP, !.rpu_id = 0]]
          [] OTHER -> [ok |-> FALSE, local |-> l0]

probe_method(node, l1) ==
    LET prop == IF node.method = "absent" THEN "smc" ELSE node.method
    IN  CASE prop = "direct" ->
               [ok |-> TRUE, method |-> HW,
                local |-> [l1 EXCEPT !.ipi_ops = "ipi_hw_ops", !.rpu_ops = "rpu_hw_ops"]]
          [] prop = "hvc" ->
               [ok |-> TRUE, method |-> HVC,
                local |-> [l1 EXCEPT !.ipi_ops = "ipi_hvc_ops", !.rpu_ops = "rpu_hvc_ops"]]
          [] prop = "smc" ->
               [ok |-> TRUE, method |-> SMC,
                local |-> [l1 EXCEPT !.ipi_ops = "ipi_smc_ops", !.rpu_ops = "rpu_smc_ops"]]
          [] OTHER -> [ok |-> FALSE, method |-> 0, local |-> l1]

\* the three devm_ioremap_resource calls of the direct method
probe_ioremap(method, l2) ==
    IF method = HW
    THEN [l2 EXCEPT !.rpu_base = "rpu_base", !.crl_apb_base = "apb_base", !.ipi_base = "ipi"]
    ELSE l2

probe_bootmem(node, l3) ==
    LET prop == IF node.bootmem = "absent" THEN "tcm" ELSE node.bootmem
    IN  CASE prop = "tcm" -> [ok |-> TRUE, local |-> [l3 EXCEPT !.bootmem = TCM]]
          [] prop = "ocm" -> [ok |-> TRUE, local |-> [l3 EXCEPT !.bootmem = OCM]]
          [] OTHER -> [ok |-> FALSE, local |-> l3]

probe_ipi_dest_mask(node, l4) ==
    IF node.ipi_dest_mask = ABSENT
    THEN [l4 EXCEPT !.ipi_dest_mask = DEFAULT_IPI_DEST_MASK]
    ELSE [l4 EXCEPT !.ipi_dest_mask = node.ipi_dest_mask]

IrqOf(d) == IF d = "rpu_a" THEN 1 ELSE 2

zynqmp_r5_remoteproc_probe(node, d) ==
    LET l0 == ZeroPdata
        c == probe_core_conf(node, l0)
        m == probe_method(node, c.local)
        l3 == probe_ioremap(m.method, m.local)
        b == probe_bootmem(node, l3)
        l5 == [b.local EXCEPT !.vring0 = IrqOf(d)]
        l6 == probe_ipi_dest_mask(node, l5)
        l7 == [l6 EXCEPT !.rproc = "rproc"]
    IN  IF ~node.vring0 THEN ProbeOut(-ENXIO, l0, FALSE, FALSE)
        ELSE IF ~c.ok THEN dma_mask_fault(c.local)
        ELSE IF ~m.ok THEN dma_mask_fault(m.local)
        ELSE IF ~b.ok THEN dma_mask_fault(b.local)
        ELSE ProbeOut(0, l7, TRUE, TRUE)

\* driver core: a probe that returns 0 binds the device and keeps its devm
\* resources; any other return releases them and clears the drvdata
Probe(d) ==
    /\ dev[d].state = "unprobed"
    /\ LET r == zynqmp_r5_remoteproc_probe(of_node[d], d)
       IN  /\ dev' = [dev EXCEPT ![d] =
                        IF r.ret = 0
                        THEN [state |-> "bound", irq |-> r.irq]
                        ELSE [state |-> "failed", irq |-> FALSE]]
           /\ local' = [local EXCEPT ![d] = IF r.ret = 0 THEN r.local ELSE ZeroPdata]
           /\ rproc_state' = [rproc_state EXCEPT ![d] = IF r.added THEN "offline" ELSE "none"]
           /\ call' = Returned("probe", d, r.ret, <<>>)
    /\ UNCHANGED <<fn, step, of_node, boot_regs, regs, remoteprocdev, worklist, hist>>

(***************************************************************************)
(* The kernel services the handlers use.                                   *)
(***************************************************************************)
\* INIT_WORK(&local->workqueue, f): a fresh work item, not pending, bound to f.
\* Entries already on the worklist are not taken off it.
INIT_WORK(work, f) == [pending |-> FALSE, func |-> f]

\* schedule_work(): test-and-set of the pending bit; only the caller that
\* set it puts the item on the worklist
schedule_work_queues(work) == ~work.pending

\* platform_get_drvdata(): NULL unless a driver is bound to the device
drvdata_is_null(d) == dev[d].state # "bound"

\* rproc framework: start only from offline, stop and kick only while running
rproc_can_boot(d) == rproc_state[d] = "offline"
rproc_is_running(d) == rproc_state[d] = "running"

(***************************************************************************)
(* zynqmp_r5_rproc_start                                                   *)
(***************************************************************************)
start_work_func(pdata) == IF pdata.rpu_id = 0 THEN "handle_event0" ELSE "handle_event1"

\* zynqmp_r5_rproc_start with a fault: the core is never released from halt
start_without_halt_release(s, pdata, pdev) ==
    LET s1 == Emit(s, Ev("INIT_WORK", 0, start_work_func(pdata), 0, 0))
        s2 == Emit(s1, Ev("flush_cache_all", 0, "", 0, 0))
        s3 == Emit(s2, Ev("remoteprocdev", 0, pdev, pdata.rpu_id, 0))
        s4 == rpu_core_conf(s3, pdata)
        s5 == rpu_en_reset(s4, pdata, TRUE)
        s6 == rpu_halt(s5, pdata, TRUE)
        s7 == rpu_bootdev(s6, pdata)
        s8 == udelay(s7, 0, 500)
        s9 == rpu_en_reset(s8, pdata, FALSE)
    IN  ipi_init(s9, pdata)

\* zynqmp_r5_rproc_start with a fault: reset and halt are released before
\* the settle delay
start_release_before_delay(s, pdata, pdev) ==
    LET s1 == Emit(s, Ev("INIT_WORK", 0, start_work_func(pdata), 0, 0))
        s2 == Emit(s1, Ev("flush_cache_all", 0, "", 0, 0))
        s3 == Emit(s2, Ev("remoteprocdev", 0, pdev, pdata.rpu_id, 0))
        s4 == rpu_core_conf(s3, pdata)
        s5 == rpu_en_reset(s4, pdata, TRUE)
        s6 == rpu_halt(s5, pdata, TRUE)
        s7 == rpu_bootdev(s6, pdata)
        s8 == rpu_en_reset(s7, pdata, FALSE)
        s9 == rpu_halt(s8, pdata, FALSE)
        s10 == udelay(s9, 0, 500)
    IN  ipi_init(s10, pdata)

zynqmp_r5_rproc_start(s, pdata, pdev) ==
    LET s1 == Emit(s, Ev("INIT_WORK", 0, start_work_func(pdata), 0, 0))
        s2 == Emit(s1, Ev("flush_cache_all", 0, "", 0, 0))
        s3 == Emit(s2, Ev("remoteprocdev", 0, pdev, pdata.rpu_id, 0))
        s4 == rpu_core_conf(s3, pdata)
        s5 == rpu_en_reset(s4, pdata, TRUE)
        s6 == rpu_halt(s5, pdata, TRUE)
        s7 == rpu_bootdev(s6, pdata)
        s8 == udelay(s7, 0, 500)
        s9 == rpu_en_reset(s8, pdata, FALSE)
        s10 == rpu_halt(s9, pdata, FALSE)
    IN  ipi_init(s10, pdata)

Start(d) ==
    /\ rproc_can_boot(d)
    /\ LET pdata == local[d]
           s == zynqmp_r5_rproc_start([regs |-> regs, trace |-> <<>>], pdata, d)
       IN  /\ regs' = s.regs
           /\ local' = [local EXCEPT ![d].workqueue = INIT_WORK(@, start_work_func(pdata))]
           /\ remoteprocdev' = [remoteprocdev EXCEPT ![pdata.rpu_id] = d]
           /\ call' = Returned("start", d, 0, s.trace)
    /\ rproc_state' = [rproc_state EXCEPT ![d] = "running"]
    /\ hist' = IF hist.phase = "fresh"
               THEN [phase |-> "started", dev |-> d]
               ELSE [phase |-> "other", dev |-> "NULL"]
    /\ UNCHANGED <<fn, step, of_node, boot_regs, dev, worklist>>

(***************************************************************************)
(* zynqmp_r5_rproc_stop                                                    *)
(***************************************************************************)
\* zynqmp_r5_rproc_stop with a fault: the core is halted but left out of reset
stop_without_reset(s, pdata) ==
    LET s2 == rpu_halt(s, pdata, TRUE)
    IN  ipi_reset(s2, pdata)

\* zynqmp_r5_rproc_stop with a fault: the core is halted before it is reset
stop_halt_before_reset(s, pdata) ==
    LET s1 == rpu_halt(s, pdata, TRUE)
        s2 == rpu_en_reset(s1, pdata, TRUE)
    IN  ipi_reset(s2, pdata)

zynqmp_r5_rproc_stop(s, pdata) ==
    LET s1 == rpu_en_reset(s, pdata, TRUE)
        s2 == rpu_halt(s1, pdata, TRUE)
    IN  ipi_reset(s2, pdata)

Stop(d) ==
    /\ rproc_is_running(d)
    /\ LET s == zynqmp_r5_rproc_stop([regs |-> regs, trace |-> <<>>], local[d])
       IN  /\ regs' = s.regs
           /\ call' = Returned("stop", d, 0, s.trace)
    /\ rproc_state' = [rproc_state EXCEPT ![d] = "offline"]
    /\ hist' = IF hist = [phase |-> "started", dev |-> d]
               THEN [phase |-> "roundtrip", dev |-> d]
               ELSE [phase |-> "other", dev |-> "NULL"]
    /\ UNCHANGED <<fn, step, of_node, boot_regs, dev, local, remoteprocdev, worklist>>

(***************************************************************************)
(* zynqmp_r5_rproc_kick                                                    *)
(***************************************************************************)
\* zynqmp_r5_rproc_kick with a fault: only virtqueue 0 raises the notification
kick_first_queue_only(s, pdata, vqid) == IF vqid = 0 THEN ipi_trigger(s, pdata) ELSE s

zynqmp_r5_rproc_kick(s, pdata, vqid) == ipi_trigger(s, pdata)

Kick(d) ==
    /\ rproc_is_running(d)
    /\ \E vqid \in {0, 1} :
         LET s == zynqmp_r5_rproc_kick([regs |-> regs, trace |-> <<>>], local[d], vqid)
         IN  /\ regs' = s.regs
             /\ call' = Returned("kick", d, 0, s.trace)
    /\ hist' = [phase |-> "other", dev |-> "NULL"]
    /\ UNCHANGED <<fn, step, of_node, boot_regs, dev, local, rproc_state, remoteprocdev, worklist>>

(***************************************************************************)
(* r5_remoteproc_interrupt.  The line is live from devm_request_irq in the *)
(* probe until the device is unbound.                                      *)
(***************************************************************************)
\* r5_remoteproc_interrupt with a fault: the notification is acknowledged
\* only when the work item was queued, and before it is queued
irq_ack_only_when_queued(s, pdata) ==
    LET queues == schedule_work_queues(pdata.workqueue)
        s1 == IF queues THEN ipi_clear(s, pdata) ELSE s
    IN  Emit(s1, Ev("schedule_work", 0, "", 0, IF queues THEN 1 ELSE 0))

r5_remoteproc_interrupt(s, pdata) ==
    LET s1 == Emit(s, Ev("schedule_work", 0, "", 0,
                         IF schedule_work_queues(pdata.workqueue) THEN 1 ELSE 0))
    IN  ipi_clear(s1, pdata)

Interrupt(d) ==
    /\ dev[d].irq
    /\ local[d].workqueue.pending \/ worklist[d] < MaxQueued
    /\ LET pdata == local[d]
           s == r5_remoteproc_interrupt([regs |-> regs, trace |-> <<>>], pdata)
       IN  /\ regs' = s.regs
           /\ worklist' = [worklist EXCEPT ![d] =
                             IF schedule_work_queues(pdata.workqueue) THEN @ + 1 ELSE @]
           /\ local' = [local EXCEPT ![d].workqueue.pending = TRUE]
           /\ call' = Returned("irq", d, IRQ_HANDLED, s.trace)
    /\ hist' = [phase |-> "other", dev |-> "NULL"]
    /\ UNCHANGED <<fn, step, of_node, boot_regs, dev, rproc_state, remoteprocdev>>

(***************************************************************************)
(* The deferred work: a worker takes one entry of d's work item off the    *)
(* worklist, clears the pending bit and calls work->func.                  *)
(***************************************************************************)
\* handle_event: the rproc handed to rproc_vq_interrupt(.., 0) and its result
handle_event(target, res) ==
    [oops |-> FALSE, vq |-> target, ret |-> res,
     trace |-> <<Ev("flush_cache_all", 0, "", 0, 0),
                 Ev("rproc_vq_interrupt", 0, target, 0, 0)>>
               \o (IF res = IRQ_NONE THEN <<Ev("dev_dbg", 0, "", 0, 0)>> ELSE <<>>)]

Oops == [oops |-> TRUE, vq |-> "NULL", ret |-> 0, trace |-> <<>>]

\* handle_event0 / handle_event1: the instance is looked up in the registry
handle_eventN(n, res) ==
    LET pdev == remoteprocdev[n]
    IN  IF pdev = "NULL" THEN Oops
        ELSE IF drvdata_is_null(pdev) THEN Oops
        ELSE handle_event(pdev, res)

work_func(func, res) ==
    CASE func = "handle_event0" -> handle_eventN(0, res)
      [] func = "handle_event1" -> handle_eventN(1, res)
      [] OTHER -> Oops

RunWork(d) ==
    /\ worklist[d] > 0
    /\ worklist' = [worklist EXCEPT ![d] = @ - 1]
    /\ local' = [local EXCEPT ![d].workqueue.pending = FALSE]
    /\ \E res \in {IRQ_NONE, IRQ_HANDLED}, freed \in {"intact", "clobbered"} :
         \* the work item lives in the devm allocation that an unbind frees
         /\ freed = "clobbered" => dev[d].state = "removed"
         /\ LET r == IF freed = "clobbered" THEN Oops
                     ELSE work_func(local[d].workqueue.func, res)
            IN  call' = [op |-> "work", dev |-> d, ret |-> r.ret, oops |-> r.oops,
                         trace |-> r.trace, vq |-> r.vq]
    /\ UNCHANGED <<fn, step, of_node, boot_regs, regs, dev, rproc_state, remoteprocdev, hist>>

(***************************************************************************)
(* zynqmp_r5_remoteproc_remove.  rproc_del() shuts a running rproc down    *)
(* through its stop operation; rproc_put(NULL) dereferences the pointer.   *)
(***************************************************************************)
zynqmp_r5_remoteproc_remove(s, pdata, running) ==
    IF pdata.rproc = "NULL" THEN [s |-> s, oops |-> TRUE]
    ELSE IF running THEN [s |-> zynqmp_r5_rproc_stop(s, pdata), oops |-> FALSE]
    ELSE [s |-> s, oops |-> FALSE]

Remove(d) ==
    /\ dev[d].state = "bound"
    /\ LET r == zynqmp_r5_remoteproc_remove([regs |-> regs, trace |-> <<>>],
                                            local[d], rproc_is_running(d))
       IN  /\ regs' = r.s.regs
           /\ call' = [op |-> "remove", dev |-> d, ret |-> 0, oops |-> r.oops,
                       trace |-> r.s.trace, vq |-> "NULL"]
    /\ dev' = [dev EXCEPT ![d] = [state |-> "removed", irq |-> FALSE]]
    /\ rproc_state' = [rproc_state EXCEPT ![d] =
                         IF local[d].rproc = "NULL" THEN "none" ELSE "deleted"]
    /\ hist' = [phase |-> "other", dev |-> "NULL"]
    /\ UNCHANGED <<fn, step, of_node, boot_regs, local, remoteprocdev, worklist>>

Next ==
    \/ \E d \in Devs : Probe(d)
    \/ \E d \in Devs : Start(d)
    \/ \E d \in Devs : Stop(d)
    \/ \E d \in Devs : Kick(d)
    \/ \E d \in Devs : Interrupt(d)
    \/ \E d \in Devs : RunWork(d)
    \/ \E d \in Devs : Remove(d)

Spec == Init /\ [][Next]_vars

(***************************************************************************)
(* zynqmp_r5_kva_to_guest_addr_kva.  Addresses are integers.  The kernel's *)
(* linear map takes the physical address x to x - PHYS_OFFSET +            *)
(* PAGE_OFFSET; a vring buffer from dma_alloc_coherent has a kernel        *)
(* address rvring->va that need not lie in the linear map.                 *)
(***************************************************************************)
PHYS_OFFSET == 64
PAGE_OFFSET == 4096
MaxRingLen == 3

phys_to_virt(x) == x - PHYS_OFFSET + PAGE_OFFSET
virt_to_phys(x) == x - PAGE_OFFSET + PHYS_OFFSET

\* struct rproc_vring as far as the translator reads it: va, dma (and the
\* length of the buffer the addresses come from); vq->priv points to it
Vrings ==
    { [va |-> v, dma |-> p, len |-> MaxRingLen] :
        v \in {phys_to_virt(128), 9000}, p \in {128, 256} }

Virtqueues == { [priv |-> rvring] : rvring \in Vrings }

\* the translator with a fault: the physical base is not mapped
translate_without_linear_map(rproc, va, vq) == vq.priv.dma + (va - vq.priv.va)

zynqmp_r5_kva_to_guest_addr_kva(rproc, va, vq) ==
    LET rvring == vq.priv
    IN  phys_to_virt(rvring.dma) + (va - rvring.va)

\* a function and the input it is about to be applied to
Input(name, arg) ==
    [name |-> name, dev |-> "NULL", arg |-> arg, ret |-> 0, pre |-> <<>>, post |-> <<>>]

\* the driver as loaded, with the input drawn
InitWith(inputs) ==
    /\ of_node \in DeviceTrees
    /\ boot_regs \in PowerOnRegs
    /\ regs = boot_regs
    /\ dev = [d \in Devs |-> [state |-> "unprobed", irq |-> FALSE]]
    /\ local = [d \in Devs |-> ZeroPdata]
    /\ rproc_state = [d \in Devs |-> "none"]
    /\ remoteprocdev = [i \in 0 .. (MAX_INSTANCES - 1) |-> "NULL"]
    /\ worklist = [d \in Devs |-> 0]
    /\ hist = [phase |-> "fresh", dev |-> "NULL"]
    /\ call = NoCall
    /\ fn \in inputs
    /\ step = [d \in Devs |-> Idle]

RingAddresses(vq) == vq.priv.va .. (vq.priv.va + vq.priv.len - 1)

TranslateInputs ==
    UNION { { Input("translate", <<va, vq>>) : va \in RingAddresses(vq) } : vq \in Virtqueues }

\* the virtio layer translates the address for a ring of an existing rproc
Translate(d) ==
    /\ fn.name = "translate" /\ fn.dev = "NULL"
    /\ rproc_state[d] \in {"offline", "running"}
    /\ fn' = [fn EXCEPT !.dev = d,
                        !.ret = zynqmp_r5_kva_to_guest_addr_kva(local[d].rproc,
                                                                fn.arg[1], fn.arg[2]),
                        !.pre = <<rproc_state[d], local[d].rpu_id>>]
    /\ UNCHANGED <<of_node, boot_regs, regs, dev, local, rproc_state, remoteprocdev,
                   worklist, hist, call, step>>

\* the driver until the function is applied
Before(A) == fn.dev = "NULL" /\ A

XlatNext ==
    \/ \E d \in Devs : Before(Probe(d))
    \/ \E d \in Devs : Before(Start(d))
    \/ \E d \in Devs : Before(Stop(d))
    \/ \E d \in Devs : Translate(d)

XlatSpec == InitWith(TranslateInputs) /\ [][XlatNext]_vars

(***************************************************************************)
(* rpu_ops->core_conf applied to a chosen prior value of RPU_GLBL_CNTL.    *)
(***************************************************************************)
MaxGlblCntl == 127

CoreConfInputs == { Input("core_conf", <<v>>) : v \in 0 .. MaxGlblCntl }

CoreConf(d) ==
    /\ fn.name = "core_conf" /\ fn.dev = "NULL"
    /\ local[d].rpu_ops # "NULL"
    /\ LET before == [regs EXCEPT !["rpu_base"][RPU_GLBL_CNTL_OFFSET] = fn.arg[1]]
           s == rpu_core_conf([regs |-> before, trace |-> <<>>], local[d])
       IN  fn' = [fn EXCEPT !.dev = d, !.pre = before, !.post = s.regs]
    /\ UNCHANGED <<of_node, boot_regs, regs, dev, local, rproc_state, remoteprocdev,
                   worklist, hist, call, step>>

ConfNext ==
    \/ \E d \in Devs : Before(Probe(d))
    \/ \E d \in Devs : CoreConf(d)

ConfSpec == InitWith(CoreConfInputs) /\ [][ConfNext]_vars

(***************************************************************************)
(* rpu_ops->bootdev applied to chosen prior values of RPU_0_CFG and        *)
(* RPU_1_CFG.                                                              *)
(***************************************************************************)
MaxCfg == 7

BootDevInputs == { Input("bootdev", <<v0, v1>>) : v0 \in 0 .. MaxCfg, v1 \in 0 .. MaxCfg }

BootDev(d) ==
    /\ fn.name = "bootdev" /\ fn.dev = "NULL"
    /\ local[d].rpu_ops # "NULL"
    /\ LET before == [regs EXCEPT !["rpu_base"][RPU_0_CFG_OFFSET] = fn.arg[1],
                                  !["rpu_base"][RPU_1_CFG_OFFSET] = fn.arg[2]]
           s == rpu_bootdev([regs |-> before, trace |-> <<>>], local[d])
       IN  fn' = [fn EXCEPT !.dev = d, !.pre = before, !.post = s.regs]
    /\ UNCHANGED <<of_node, boot_regs, regs, dev, local, rproc_state, remoteprocdev,
                   worklist, hist, call, step>>

BootNext ==
    \/ \E d \in Devs : Before(Probe(d))
    \/ \E d \in Devs : BootDev(d)

BootSpec == InitWith(BootDevInputs) /\ [][BootNext]_vars

(***************************************************************************)
(* Observations the claims are stated in.                                  *)
(***************************************************************************)
CfgOffset(id) == IF id = 0 THEN RPU_0_CFG_OFFSET ELSE RPU_1_CFG_OFFSET

HasBits(v, mask) == BitAnd(v, mask) = mask
NoBits(v, mask) == BitAnd(v, mask) = 0

ResetAsserted(id) == HasBits(regs["apb_base"][RST_LPD_TOP_OFFSET], Shl(RPU0_RESET_BIT, id))
Halted(id) == NoBits(regs["rpu_base"][CfgOffset(id)], nCPUHALT_BIT)

CoreRunning(id) == ~ResetAsserted(id) /\ ~Halted(id)
CoreStopped(id) == ResetAsserted(id) /\ Halted(id)

IsDirect(d) == local[d].rpu_ops = "rpu_hw_ops" /\ local[d].ipi_ops = "ipi_hw_ops"
IsStub(d) == local[d].rpu_ops \in {"rpu_smc_ops", "rpu_hvc_ops"}

StartReturned(d) == call.op = "start" /\ call.dev = d
StopReturned(d) == call.op = "stop" /\ call.dev = d

\* the present registers and an empty trace
Pristine == [regs |-> regs, trace |-> <<>>]

\* the events of a trace at one level, and its register writes
AtLevel(trace, lvl) == SelectSeq(trace, LAMBDA e : e.lvl = lvl)
Writes(trace) == SelectSeq(trace, LAMBDA e : e.ev = "reg_write")
Names(trace) == [i \in 1 .. Len(trace) |-> <<trace[i].ev, trace[i].val>>]
Targets(trace) == [i \in 1 .. Len(trace) |-> <<trace[i].win, trace[i].off>>]

(***************************************************************************)
(* Start and stop one register access at a time.  Each rproc has its own   *)
(* lock, so the start or stop of one instance runs concurrently with the   *)
(* start or stop of another; the driver takes no lock of its own.  A call  *)
(* of a direct rpu operation is a reg_read into tmp and, as a later step,  *)
(* the reg_write of the value computed from tmp.                           *)
(***************************************************************************)
Instr(f, arg) == [f |-> f, arg |-> arg]

\* zynqmp_r5_rproc_start after INIT_WORK and the registry store
StartProgram ==
    <<Instr("core_conf", FALSE), Instr("en_reset", TRUE), Instr("halt", TRUE),
      Instr("bootdev", FALSE), Instr("udelay", FALSE), Instr("en_reset", FALSE),
      Instr("halt", FALSE), Instr("ipi_init", FALSE)>>

\* zynqmp_r5_rproc_stop
StopProgram ==
    <<Instr("en_reset", TRUE), Instr("halt", TRUE), Instr("ipi_reset", FALSE)>>

Program(op) == IF op = "start" THEN StartProgram ELSE StopProgram

Apply(ins, s, pdata) ==
    CASE ins.f = "core_conf" -> rpu_core_conf(s, pdata)
      [] ins.f = "en_reset" -> rpu_en_reset(s, pdata, ins.arg)
      [] ins.f = "halt" -> rpu_halt(s, pdata, ins.arg)
      [] ins.f = "bootdev" -> rpu_bootdev(s, pdata)
      [] ins.f = "udelay" -> udelay(s, 0, 500)
      [] ins.f = "ipi_init" -> ipi_init(s, pdata)
      [] ins.f = "ipi_reset" -> ipi_reset(s, pdata)

\* the operations that read a register and write it back
IsRmw(ins, pdata) ==
    pdata.rpu_ops = "rpu_hw_ops" /\ ins.f \in {"core_conf", "en_reset", "halt", "bootdev"}

\* the register such an operation reads and writes
RmwTarget(ins, pdata) ==
    CASE ins.f = "core_conf" -> <<"rpu_base", RPU_GLBL_CNTL_OFFSET>>
      [] ins.f = "en_reset" -> <<"apb_base", RST_LPD_TOP_OFFSET>>
      [] OTHER -> <<"rpu_base", CfgOffset(pdata.rpu_id)>>

Current(d) == Program(step[d].op)[step[d].at]

\* the instruction at step[d].at has completed
Advance(d, st) ==
    IF st.at = Len(Program(st.op))
    THEN /\ step' = [step EXCEPT ![d] = [st EXCEPT !.op = "idle", !.at = 0]]
         /\ rproc_state' = [rproc_state EXCEPT ![d] =
                              IF st.op = "start" THEN "running" ELSE "offline"]
    ELSE /\ step' = [step EXCEPT ![d] = [st EXCEPT !.at = @ + 1]]
         /\ UNCHANGED rproc_state

BeginStart(d) ==
    /\ rproc_can_boot(d) /\ step[d].op = "idle"
    /\ local' = [local EXCEPT ![d].workqueue = INIT_WORK(@, start_work_func(local[d]))]
    /\ remoteprocdev' = [remoteprocdev EXCEPT ![local[d].rpu_id] = d]
    /\ step' = [step EXCEPT ![d] = [@ EXCEPT !.op = "start", !.at = 1]]
    /\ UNCHANGED <<of_node, boot_regs, regs, dev, rproc_state, worklist, hist, call, fn>>

BeginStop(d) ==
    /\ rproc_is_running(d) /\ step[d].op = "idle"
    /\ step' = [step EXCEPT ![d] = [@ EXCEPT !.op = "stop", !.at = 1]]
    /\ UNCHANGED <<of_node, boot_regs, regs, dev, local, rproc_state, remoteprocdev,
                   worklist, hist, call, fn>>

\* tmp = reg_read(base, reg)
ReadStep(d) ==
    /\ step[d].op # "idle" /\ step[d].phase = "read"
    /\ IsRmw(Current(d), local[d])
    /\ LET tgt == RmwTarget(Current(d), local[d])
       IN  step' = [step EXCEPT ![d] = [@ EXCEPT !.phase = "write",
                                                 !.tmp = regs[tgt[1]][tgt[2]]]]
    /\ UNCHANGED <<of_node, boot_regs, regs, dev, local, rproc_state, remoteprocdev,
                   worklist, hist, call, fn>>

\* reg_write(base, reg, tmp) with tmp as the operation computes it from the
\* value read earlier
WriteStep(d) ==
    /\ step[d].op # "idle" /\ step[d].phase = "write"
    /\ LET ins == Current(d)
           tgt == RmwTarget(ins, local[d])
           asread == [regs EXCEPT ![tgt[1]][tgt[2]] = step[d].tmp]
           s == Apply(ins, [regs |-> asread, trace |-> <<>>], local[d])
           st == [step[d] EXCEPT
                     !.phase = "read", !.tmp = 0,
                     !.last_reset = IF ins.f = "en_reset"
                                    THEN (IF ins.arg THEN 1 ELSE 0) ELSE @,
                     !.last_conf = IF ins.f = "core_conf" THEN local[d].rpu_mode ELSE @]
       IN  /\ regs' = [regs EXCEPT ![tgt[1]][tgt[2]] = s.regs[tgt[1]][tgt[2]]]
           /\ Advance(d, st)
    /\ UNCHANGED <<of_node, boot_regs, dev, local, remoteprocdev, worklist, hist, call, fn>>

\* an operation that only writes, waits or logs
PlainStep(d) ==
    /\ step[d].op # "idle" /\ step[d].phase = "read"
    /\ ~IsRmw(Current(d), local[d])
    /\ regs' = Apply(Current(d), [regs |-> regs, trace |-> <<>>], local[d]).regs
    /\ Advance(d, step[d])
    /\ UNCHANGED <<of_node, boot_regs, dev, local, remoteprocdev, worklist, hist, call, fn>>

RmwNext ==
    \/ \E d \in Devs : Probe(d)
    \/ \E d \in Devs : BeginStart(d)
    \/ \E d \in Devs : BeginStop(d)
    \/ \E d \in Devs : ReadStep(d)
    \/ \E d \in Devs : WriteStep(d)
    \/ \E d \in Devs : PlainStep(d)

RmwSpec == Init /\ [][RmwNext]_vars

\* the steps of a start or stop taken one after the other give what the
\* handler gives as a whole
RECURSIVE RunProgram(_, _, _)
RunProgram(prog, s, pdata) ==
    IF prog = <<>> THEN s
    ELSE RunProgram(Tail(prog), Apply(Head(prog), s, pdata), pdata)

ProgramsMatchHandlers ==
    \A d \in Devs :
        local[d].rpu_ops # "NULL" /\ local[d].ipi_ops # "NULL" =>
            /\ RunProgram(StartProgram, Pristine, local[d]).regs
                 = zynqmp_r5_rproc_start(Pristine, local[d], d).regs
            /\ RunProgram(StopProgram, Pristine, local[d])
                 = zynqmp_r5_rproc_stop(Pristine, local[d])

StartOrder(d) ==
    << <<"INIT_WORK", 0>>, <<"remoteprocdev", 0>>, <<"core_conf", 0>>,
       <<"en_reset", 1>>, <<"halt", 1>>, <<"bootdev", 0>>, <<"udelay", 500>>,
       <<"en_reset", 0>>, <<"halt", 0>>, <<"reset", 0>>, <<"set_mask", 0>> >>

\* the registers a direct start writes, in order
StartWriteOrder(d) ==
    << <<"rpu_base", RPU_GLBL_CNTL_OFFSET>>, <<"apb_base", RST_LPD_TOP_OFFSET>>,
       <<"rpu_base", CfgOffset(local[d].rpu_id)>>, <<"rpu_base", CfgOffset(local[d].rpu_id)>>,
       <<"apb_base", RST_LPD_TOP_OFFSET>>, <<"rpu_base", CfgOffset(local[d].rpu_id)>>,
       <<"ipi", IDR_OFFSET>>, <<"ipi", ISR_OFFSET>>, <<"ipi", IER_OFFSET>> >>

\* C2: every start issues, in this order: bind the work item, publish the
\* instance in the registry under its core index, core_conf, en_reset(true),
\* halt(true), bootdev, the 500 us delay, en_reset(false), halt(false), IPI
\* reset, IPI set_mask; for the direct method the register writes come in
\* the matching order, the enable register last.
C2_StartOrder ==
    \A d \in Devs :
        StartReturned(d) =>
            /\ Names(SelectSeq(AtLevel(call.trace, 0), LAMBDA e : e.ev # "flush_cache_all"))
                 = StartOrder(d)
            /\ AtLevel(call.trace, 0)[1].win = start_work_func(local[d])
            /\ AtLevel(call.trace, 0)[3] = Ev("remoteprocdev", 0, d, local[d].rpu_id, 0)
            /\ IsDirect(d) => Targets(Writes(call.trace)) = StartWriteOrder(d)

C2_Witness ==
    \E d \in Devs :
        /\ StartReturned(d) /\ IsDirect(d) /\ local[d].rpu_id = 1
        /\ Len(Writes(call.trace)) = 9
        /\ remoteprocdev[1] = d

(***************************************************************************)
(* C3                                                                      *)
(***************************************************************************)
\* C3: at most one deferred task per instance is outstanding (queued and
\* not yet started), so the interrupts that arrive before the task begins
\* cause one execution of its body.
C3_AtMostOneOutstanding == \A d \in Devs : worklist[d] <= 1

(***************************************************************************)
(* C4                                                                      *)
(***************************************************************************)
\* the workqueue runs every queued work item eventually
FairSpec == Spec /\ \A d \in Devs : WF_vars(RunWork(d))

IrqReturned(d) == call.op = "irq" /\ call.dev = d
VqProcessed(d) == call.op = "work" /\ call.dev = d /\ ~call.oops /\ call.vq # "NULL"

\* C4: after every interrupt handler invocation for an instance, a deferred
\* task body of that instance eventually runs and calls the virtqueue
\* processing routine (stated for the instances that are never unbound: an
\* unbind is let count as an answer).
C4_NoLostNotification ==
    \A d \in Devs : IrqReturned(d) ~> (VqProcessed(d) \/ dev[d].state = "removed")

(***************************************************************************)
(* C5                                                                      *)
(***************************************************************************)
RoundTrip(d) == hist = [phase |-> "roundtrip", dev |-> d]

\* C5 as stated: after start then stop of a direct instance on untouched
\* hardware, every register equals its power-on value.
C5_RoundTripAllRegisters ==
    \A d \in Devs : RoundTrip(d) /\ IsDirect(d) => regs = boot_regs

ModeBits == SLSPLIT_BIT + SLCLAMP_BIT + TCM_COMB_BIT

\* C5 amended: after start then stop of a direct instance on untouched
\* hardware, the low-power-domain reset register equals its power-on value
\* and the instance's per-core configuration register equals its power-on
\* value (halted) except for the boot-source bit, which is what setBootDevice
\* wrote; the other core's configuration register and the trigger register
\* are untouched; the core-control register differs from its power-on value
\* at most in the split, clamp and TCM-combine bits, which are what
\* configureCoreMode wrote; the notification enable register holds the
\* destination mask and the disable and status registers hold 0x0F0F0301.
C5_RoundTripResetHalt ==
    \A d \in Devs :
        RoundTrip(d) /\ IsDirect(d) =>
            LET id == local[d].rpu_id
                cfg == regs["rpu_base"][CfgOffset(id)]
                glbl == regs["rpu_base"][RPU_GLBL_CNTL_OFFSET]
            IN  /\ regs["apb_base"] = boot_regs["apb_base"]
                /\ CoreStopped(id)
                /\ BitAndNot(cfg, VINITHI_BIT)
                     = BitAndNot(boot_regs["rpu_base"][CfgOffset(id)], VINITHI_BIT)
                /\ HasBits(cfg, VINITHI_BIT) <=> local[d].bootmem = OCM
                /\ regs["rpu_base"][CfgOffset(1 - id)] = boot_regs["rpu_base"][CfgOffset(1 - id)]
                /\ BitAndNot(glbl, ModeBits)
                     = BitAndNot(boot_regs["rpu_base"][RPU_GLBL_CNTL_OFFSET], ModeBits)
                /\ BitAnd(glbl, ModeBits)
                     = (IF local[d].rpu_mode = SPLIT THEN SLSPLIT_BIT
                        ELSE SLCLAMP_BIT + TCM_COMB_BIT)
                /\ regs["ipi"][IER_OFFSET] = local[d].ipi_dest_mask
                /\ regs["ipi"][IDR_OFFSET] = IPI_ALL_MASK
                /\ regs["ipi"][ISR_OFFSET] = IPI_ALL_MASK
                /\ regs["ipi"][TRIG_OFFSET] = boot_regs["ipi"][TRIG_OFFSET]

C5_Witness ==
    \E d \in Devs :
        /\ RoundTrip(d) /\ IsDirect(d) /\ StopReturned(d)
        /\ local[d].bootmem = OCM
        /\ regs["rpu_base"][CfgOffset(local[d].rpu_id)]
             # boot_regs["rpu_base"][CfgOffset(local[d].rpu_id)]

(***************************************************************************)
(* C6                                                                      *)
(***************************************************************************)
LockStepTcmDirect(d) ==
    /\ IsDirect(d)
    /\ local[d].rpu_mode = LOCK_STEP
    /\ local[d].bootmem = TCM
    /\ local[d].ipi_dest_mask = 256

WroteAllMask(trace, off) ==
    \E i \in 1 .. Len(trace) : trace[i] = Ev("reg_write", 1, "ipi", off, IPI_ALL_MASK)

\* C6: for a direct, lock-step, tcm instance with destination mask 0x100:
\* when start has returned the core's reset bit is clear, the core is not
\* halted, the boot-source bit is clear and the enable register holds 0x100;
\* when stop has returned the reset bit is set, the core is halted and the
\* disable and status registers have been written with 0x0F0F0301.
C6_EndToEndRegisters ==
    \A d \in Devs :
        LockStepTcmDirect(d) =>
            /\ StartReturned(d) =>
                 /\ ~ResetAsserted(local[d].rpu_id)
                 /\ ~Halted(local[d].rpu_id)
                 /\ NoBits(regs["rpu_base"][CfgOffset(local[d].rpu_id)], VINITHI_BIT)
                 /\ regs["ipi"][IER_OFFSET] = 256
            /\ StopReturned(d) =>
                 /\ ResetAsserted(local[d].rpu_id)
                 /\ Halted(local[d].rpu_id)
                 /\ WroteAllMask(call.trace, IDR_OFFSET)
                 /\ WroteAllMask(call.trace, ISR_OFFSET)
                 /\ regs["ipi"][IDR_OFFSET] = IPI_ALL_MASK
                 /\ regs["ipi"][ISR_OFFSET] = IPI_ALL_MASK

C6_Witness ==
    \E d \in Devs :
        /\ LockStepTcmDirect(d) /\ StopReturned(d) /\ RoundTrip(d)
        /\ regs["ipi"][IER_OFFSET] = 256
        /\ regs["ipi"][IDR_OFFSET] = IPI_ALL_MASK

(***************************************************************************)
(* C7                                                                      *)
(***************************************************************************)
ConfigError(node) ==
    \/ node.core_conf \notin {"split0", "split1", "lock-step", "absent"}
    \/ node.method \notin {"direct", "hvc", "smc", "absent"}
    \/ node.bootmem \notin {"tcm", "ocm", "absent"}

\* C7: a probe given an unrecognized core_conf, method or bootmem string
\* returns a failure, has written no register and leaves no instance bound.
C7_ConfigErrorFailsProbe ==
    \A d \in Devs :
        call.op = "probe" /\ call.dev = d /\ of_node[d].vring0 /\ ConfigError(of_node[d]) =>
            /\ call.ret # 0
            /\ dev[d].state # "bound"
            /\ regs = boot_regs

(***************************************************************************)
(* C8                                                                      *)
(***************************************************************************)

\* each of the eight operations of a stub instance leaves the registers alone
StubOpsLeaveRegisters(d) ==
    /\ rpu_core_conf(Pristine, local[d]).regs = regs
    /\ rpu_bootdev(Pristine, local[d]).regs = regs
    /\ \A b \in BOOLEAN :
         /\ rpu_halt(Pristine, local[d], b).regs = regs
         /\ rpu_en_reset(Pristine, local[d], b).regs = regs
    /\ ipi_clear(Pristine, local[d]).regs = regs
    /\ ipi_reset(Pristine, local[d]).regs = regs
    /\ ipi_set_mask(Pristine, local[d]).regs = regs
    /\ ipi_trigger(Pristine, local[d]).regs = regs

HandlerReturn(op) == IF op = "irq" THEN IRQ_HANDLED ELSE 0

\* C8: for an instance bound to the smc or hvc operations, each of the
\* eight backend operations leaves every register unchanged, and every
\* start, stop, kick and interrupt handler invocation on it leaves the
\* registers unchanged and returns what it returns for a direct instance
\* (0 from start and stop, IRQ_HANDLED from the interrupt handler).
C8_StubsLeaveRegisters ==
    /\ [](\A d \in Devs : IsStub(d) => StubOpsLeaveRegisters(d))
    /\ [][\A d \in Devs :
            (IsStub(d) /\ call'.dev = d /\ call'.op \in {"start", "stop", "kick", "irq"}) =>
                /\ regs' = regs
                /\ ~call'.oops
                /\ call'.ret = HandlerReturn(call'.op)]_vars
    /\ [](\A d \in Devs :
            (IsDirect(d) /\ call.dev = d /\ call.op \in {"start", "stop", "kick", "irq"}) =>
                call.ret = HandlerReturn(call.op))

C8_Witness ==
    \E d \in Devs :
        /\ local[d].rpu_ops = "rpu_smc_ops"
        /\ StopReturned(d)
        /\ regs = boot_regs
        /\ Len(call.trace) = 6

(***************************************************************************)
(* C9                                                                      *)
(***************************************************************************)
\* an instance the probe built completely and that has not been removed
Live(d) == dev[d].state = "bound" /\ local[d].rproc # "NULL"

\* C9: at most MAX_INSTANCES instances are live, no two live instances have
\* the same core index, and the registry entry at the core index of a
\* started instance is that instance.
C9_RegistryUnique ==
    /\ Cardinality({d \in Devs : Live(d)}) <= MAX_INSTANCES
    /\ \A d, e \in Devs : Live(d) /\ Live(e) /\ d # e => local[d].rpu_id # local[e].rpu_id
    /\ \A d \in Devs : Live(d) /\ rproc_is_running(d) => remoteprocdev[local[d].rpu_id] = d

(***************************************************************************)
(* C10                                                                     *)
(***************************************************************************)
\* C10: a deferred task that was scheduled by an interrupt on instance I's
\* line and that reaches the virtqueue processing routine calls it on I's
\* own rproc, never on the rproc of another instance.
C10_WorkServesOwnInstance ==
    \A d \in Devs :
        call.op = "work" /\ call.dev = d /\ ~call.oops => call.vq = d

(***************************************************************************)
(* C11                                                                     *)
(***************************************************************************)
KickReturned(d) == call.op = "kick" /\ call.dev = d

TriggerWrite(d) == Ev("reg_write", 1, "ipi", TRIG_OFFSET, local[d].ipi_dest_mask)

\* what a kick of virtqueue vqid does from the present registers
KickOf(d, vqid) == zynqmp_r5_rproc_kick(Pristine, local[d], vqid)

\* C11: a kick of a running instance issues exactly one trigger operation
\* and nothing else before it returns; on the direct method that is exactly
\* one register write, of the instance's destination mask to the trigger
\* register, and every other register keeps its value; the calls and the
\* registers after the kick are the same for every virtqueue index.
C11_KickTriggersOnce ==
    /\ [](\A d \in Devs :
            /\ KickReturned(d) =>
                 /\ Names(AtLevel(call.trace, 0)) = << <<"trigger", 0>> >>
                 /\ IsDirect(d) => Writes(call.trace) = <<TriggerWrite(d)>>
            /\ rproc_is_running(d) =>
                 /\ KickOf(d, 0) = KickOf(d, 1)
                 /\ Names(AtLevel(KickOf(d, 1).trace, 0)) = << <<"trigger", 0>> >>)
    /\ [][\A d \in Devs :
            (call'.op = "kick" /\ call'.dev = d /\ IsDirect(d)) =>
                regs' = [regs EXCEPT !["ipi"][TRIG_OFFSET] = local[d].ipi_dest_mask]]_vars

C11_Witness ==
    \E d \in Devs :
        /\ KickReturned(d) /\ IsDirect(d)
        /\ local[d].ipi_dest_mask = 512
        /\ regs["ipi"][TRIG_OFFSET] = 512
        /\ Len(call.trace) = 2

(***************************************************************************)
(* C12                                                                     *)
(***************************************************************************)
Translated == fn.name = "translate" /\ fn.dev # "NULL"
TrVa == fn.arg[1]
TrVq == fn.arg[2]
\* C12: the translation of host address a of a queue is the kernel mapping
\* of the queue's physical base plus (a - host virtual base), whatever the
\* instance and its state; mapping the result back to physical,
\* subtracting the physical base and adding the host virtual base gives a
\* again; two distinct addresses of the queue have distinct translations
\* that lie as far apart as the addresses.
C12_TranslateLinear ==
    Translated =>
        /\ fn.ret = phys_to_virt(TrVq.priv.dma) + (TrVa - TrVq.priv.va)
        /\ \A d \in Devs :
             zynqmp_r5_kva_to_guest_addr_kva(local[d].rproc, TrVa, TrVq) = fn.ret
        /\ virt_to_phys(fn.ret) - TrVq.priv.dma + TrVq.priv.va = TrVa
        /\ \A b \in RingAddresses(TrVq) :
             LET rb == zynqmp_r5_kva_to_guest_addr_kva(local[fn.dev].rproc, b, TrVq)
             IN  /\ b # TrVa => rb # fn.ret
                 /\ rb - fn.ret = b - TrVa

C12_Witness ==
    /\ Translated
    /\ fn.pre[1] = "running"
    /\ TrVq.priv.va # phys_to_virt(TrVq.priv.dma)
    /\ TrVq.priv.dma = 256
    /\ TrVa = TrVq.priv.va + 2
    /\ fn.ret = phys_to_virt(256) + 2

(***************************************************************************)
(* C13                                                                     *)
(***************************************************************************)
RemoveReturned(d) == call.op = "remove" /\ call.dev = d /\ ~call.oops

\* C13: when remove has returned for an instance, its core is in reset and
\* halted if the instance was running when the remove began (direct
\* method), and no slot of remoteprocdev holds the instance any more.
C13_RemoveStopsAndUnregisters ==
    \A d \in Devs :
        RemoveReturned(d) =>
            /\ (IsDirect(d) /\ call.trace # <<>>) => CoreStopped(local[d].rpu_id)
            /\ \A i \in 0 .. (MAX_INSTANCES - 1) : remoteprocdev[i] # d

(***************************************************************************)
(* C14                                                                     *)
(***************************************************************************)
EventNames(trace) == [i \in 1 .. Len(trace) |-> trace[i].ev]
Waits(trace) == SelectSeq(trace, LAMBDA e : e.ev = "udelay")
AckWrite(d) == Ev("reg_write", 1, "ipi", ISR_OFFSET, local[d].ipi_dest_mask)

\* C14: every run of the interrupt handler makes one schedule_work request,
\* then one clear operation, then returns IRQ_HANDLED, whether or not the
\* request queued the work item; on the direct method the clear is exactly
\* one register write, of the destination mask to the status register, so
\* each of N runs writes the status register once; the handler never waits
\* and never resets the channel, which only start and stop (also when run
\* by remove) do.
C14_IrqSchedulesThenAcks ==
    /\ \A d \in Devs :
         (call.op = "irq" /\ call.dev = d) =>
             /\ EventNames(AtLevel(call.trace, 0)) = <<"schedule_work", "clear">>
             /\ call.ret = IRQ_HANDLED
             /\ Waits(call.trace) = <<>>
             /\ local[d].ipi_ops = "ipi_hw_ops" => Writes(call.trace) = <<AckWrite(d)>>
    /\ (\E i \in 1 .. Len(call.trace) : call.trace[i].ev = "reset")
           => call.op \in {"start", "stop", "remove"}

C14_Witness ==
    \E d \in Devs :
        /\ call.op = "irq" /\ call.dev = d
        /\ local[d].ipi_ops = "ipi_hw_ops"
        /\ call.trace[1] = Ev("schedule_work", 0, "", 0, 0)
        /\ regs["ipi"][ISR_OFFSET] = local[d].ipi_dest_mask
        /\ worklist[d] = 1

(***************************************************************************)
(* C15                                                                     *)
(***************************************************************************)
StopOrder == << <<"en_reset", 1>>, <<"halt", 1>>, <<"reset", 0>> >>

\* C15: every stop calls en_reset(true), halt(true) and the channel reset,
\* in that order, calls no other operation and returns 0; the step leaves
\* RPU_GLBL_CNTL (split, clamp, TCM combine) and the VINITHI bit of both
\* core configuration registers as they were.
C15_StopOrder ==
    /\ [](\A d \in Devs :
            StopReturned(d) =>
                /\ Names(AtLevel(call.trace, 0)) = StopOrder
                /\ call.ret = 0)
    /\ [][call'.op = "stop" =>
            /\ regs'["rpu_base"][RPU_GLBL_CNTL_OFFSET] = regs["rpu_base"][RPU_GLBL_CNTL_OFFSET]
            /\ \A id \in 0 .. (MAX_INSTANCES - 1) :
                 BitAnd(regs'["rpu_base"][CfgOffset(id)], VINITHI_BIT)
                     = BitAnd(regs["rpu_base"][CfgOffset(id)], VINITHI_BIT)]_vars

C15_Witness ==
    \E d \in Devs :
        /\ StopReturned(d) /\ IsDirect(d)
        /\ local[d].rpu_mode = LOCK_STEP
        /\ HasBits(regs["rpu_base"][RPU_GLBL_CNTL_OFFSET], TCM_COMB_BIT)
        /\ Len(Writes(call.trace)) = 4

(***************************************************************************)
(* C16                                                                     *)
(***************************************************************************)
ResetBody ==
    <<Ev("reg_write", 1, "ipi", IDR_OFFSET, IPI_ALL_MASK),
      Ev("reg_write", 1, "ipi", ISR_OFFSET, IPI_ALL_MASK),
      Ev("udelay", 1, "", 0, 10)>>

IsEnableWrite(e) == e.ev = "reg_write" /\ e.win = "ipi" /\ e.off = IER_OFFSET

\* C16: on the direct method every channel reset, in start, stop or remove,
\* is the write of 0x0F0F0301 to the disable register, then the same value
\* to the status register, then the 10 us wait, with nothing between; the
\* enable register write of a start comes after that wait.
C16_ChannelResetOrder ==
    \A d \in Devs :
        (call.dev = d /\ call.op \in {"start", "stop", "remove"}
                      /\ local[d].ipi_ops = "ipi_hw_ops") =>
            \A i \in 1 .. Len(call.trace) :
                /\ call.trace[i].ev = "reset" =>
                     /\ Len(call.trace) >= i + 3
                     /\ SubSeq(call.trace, i + 1, i + 3) = ResetBody
                /\ IsEnableWrite(call.trace[i]) =>
                     \E j \in 1 .. (i - 1) :
                         /\ call.trace[j] = ResetBody[3]
                         /\ \A k \in 1 .. j : ~IsEnableWrite(call.trace[k])

C16_Witness ==
    \E d \in Devs :
        /\ StartReturned(d) /\ local[d].ipi_ops = "ipi_hw_ops"
        /\ \E i \in 1 .. Len(call.trace) : IsEnableWrite(call.trace[i])
        /\ regs["ipi"][IDR_OFFSET] = IPI_ALL_MASK
        /\ regs["ipi"][IER_OFFSET] = local[d].ipi_dest_mask

(***************************************************************************)
(* C17                                                                     *)
(***************************************************************************)
WorkRan(d) == call.op = "work" /\ call.dev = d

\* C17: whenever the interrupt handler has made its schedule_work request
\* the work item was bound to a work function by a start, and whenever the
\* work function of a core index has run, remoteprocdev held for that index
\* a device that is bound with its drvdata (the run did not dereference a
\* null or dangling pointer).
C17_BridgeStateBound ==
    \A d \in Devs :
        /\ IrqReturned(d) => local[d].workqueue.func # "NULL"
        /\ WorkRan(d) => ~call.oops

(***************************************************************************)
(* C18                                                                     *)
(***************************************************************************)
Quiet == \A d \in Devs : step[d].op = "idle"

\* one direct split instance on core 0 and one on core 1
SplitPair ==
    /\ \A d \in Devs : IsDirect(d) /\ local[d].rpu_mode = SPLIT /\ local[d].rproc # "NULL"
    /\ {local[d].rpu_id : d \in Devs} = {0, 1}

\* C18: with a direct split instance on each core whose starts and stops
\* interleave register access by register access, once both are complete
\* the reset bit of each core is what that instance's last en_reset wrote,
\* and after any core_conf RPU_GLBL_CNTL has split set, clamp and TCM
\* combine clear.
C18_NoLostUpdate ==
    (SplitPair /\ Quiet) =>
        \A d \in Devs :
            /\ step[d].last_reset # ABSENT =>
                 (ResetAsserted(local[d].rpu_id) <=> step[d].last_reset = 1)
            /\ step[d].last_conf # ABSENT =>
                 /\ HasBits(regs["rpu_base"][RPU_GLBL_CNTL_OFFSET], SLSPLIT_BIT)
                 /\ NoBits(regs["rpu_base"][RPU_GLBL_CNTL_OFFSET],
                           SLCLAMP_BIT + TCM_COMB_BIT)

(***************************************************************************)
(* C19                                                                     *)
(***************************************************************************)
\* the step runs the work item of instance e
RunsWorkOf(e) == worklist'[e] < worklist[e]

\* C19: once stop has returned for an instance, and before anything else
\* is called, no work function runs for the instance and no work function
\* calls rproc_vq_interrupt on its rproc, also when an interrupt had queued
\* the work item before the stop.
C19_QuietAfterStop ==
    [][\A d \in Devs :
          (StopReturned(d) /\ rproc_state[d] = "offline") =>
              /\ ~RunsWorkOf(d)
              /\ \A e \in Devs : RunsWorkOf(e) => call'.vq # d]_vars

(***************************************************************************)
(* C20                                                                     *)
(***************************************************************************)
CoreConfApplied(d) == fn.name = "core_conf" /\ fn.dev = d
CoreModeBits == SLSPLIT_BIT + SLCLAMP_BIT + TCM_COMB_BIT

BootDevApplied(d) == fn.name = "bootdev" /\ fn.dev = d

\* C21: bootdev of a direct instance works on RPU_0_CFG for core 0 and on
\* RPU_1_CFG, a different offset, for core 1: bit 2 of that register ends
\* set when the boot memory is OCM and clear when it is TCM; the other bits
\* of the register (the halt bit among them), the other core's register
\* and every other register keep their values.
C21_BootDevFrame ==
    /\ CfgOffset(0) # CfgOffset(1)
    /\ \A d \in Devs :
         (BootDevApplied(d) /\ local[d].rpu_ops = "rpu_hw_ops") =>
             LET own == IF local[d].rpu_id = 0 THEN RPU_0_CFG_OFFSET ELSE RPU_1_CFG_OFFSET
                 prior == fn.pre["rpu_base"][own]
                 after == fn.post["rpu_base"][own]
             IN  /\ prior = fn.arg[local[d].rpu_id + 1]
                 /\ local[d].bootmem = OCM => HasBits(after, VINITHI_BIT)
                 /\ local[d].bootmem = TCM => NoBits(after, VINITHI_BIT)
                 /\ BitAndNot(after, VINITHI_BIT) = BitAndNot(prior, VINITHI_BIT)
                 /\ BitAnd(after, nCPUHALT_BIT) = BitAnd(prior, nCPUHALT_BIT)
                 /\ \A w \in Windows : \A off \in DOMAIN regs[w] :
                      <<w, off>> # <<"rpu_base", own>> => fn.post[w][off] = fn.pre[w][off]

C21_Witness ==
    \E d \in Devs :
        /\ BootDevApplied(d) /\ local[d].rpu_ops = "rpu_hw_ops"
        /\ local[d].rpu_id = 1 /\ local[d].bootmem = OCM
        /\ fn.arg = <<4, 1>>
        /\ fn.post["rpu_base"][RPU_1_CFG_OFFSET] = 5
        /\ fn.post["rpu_base"][RPU_0_CFG_OFFSET] = 4

====
